---- MODULE Spec2Model ----
(***************************************************************************)
(* pgbalancer: a client-side balancer over a registry of database nodes,   *)
(* each with a token-bucket rate gate, a background selector goroutine     *)
(* (nodeSelector) and a one-slot channel (idleNode) through which callers  *)
(* of Cluster.Node receive an eligible node.                               *)
(*                                                                         *)
(* The model follows src/cluster.go and src/node.go.  Every critical       *)
(* section of Cluster.mu and every sync.Map / rate.Limiter / channel       *)
(* operation is one atomic step; the code between them is interleaved      *)
(* freely among the administrative goroutines, the selector and the        *)
(* callers.  Time is a Tick action that refills every limiter.             *)
(***************************************************************************)
EXTENDS Integers, Sequences, FiniteSets, TLC

\* ---------------------------------------------------------------- bounds
MaxCalls == 3       \* administrative calls (AddNode, RemoveNode, ...) over a run
MaxRate == 1        \* limitRPS values range over 0..MaxRate
TicksPerSec == 1    \* clock resolution: Tick advances time by 1/TicksPerSec s

\* ------------------------------------------------------ program constants
Burst == 1          \* rate.NewLimiter(l, 1)
ChanCap == 1        \* make(chan *Node, 1)

Names == {"a", "b"}
DSNs == {"ok", "bad"}
Admins == {"adm1", "adm2"}
Callers == {"c1", "c2"}
Rates == 0..MaxRate

NoNode == 0                     \* nil *Node
NoErr == "nil"                  \* nil error
ErrDuplicateNodeName == "node name is already exist"
ErrAddFailed == "failed to add a node"
NoName == "-"

VARIABLES
    nodes,      \* Cluster.nodes (sync.Map): name -> Node object id
    nodeLen,    \* Cluster.nodeLen
    limitRPS,   \* Cluster.limitRPS
    idleNode,   \* Cluster.idleNode: buffered channel of capacity 1
    objs,       \* heap of Node objects, indexed by object id
    dpc,        \* nodeSelector: position in its loop
    dtodo,      \* nodeSelector: keys of the running Range not yet visited
    dnode,      \* nodeSelector: the node held by the Range callback
    pc,         \* administrative goroutine: position in its current call
    loc,        \* administrative goroutine: locals of its current call
    ret,        \* administrative goroutine: the error its last call returned
    cpc,        \* caller goroutine: "idle" or "blocked" in Cluster.Node
    calls,      \* history: administrative calls begun so far
    closing,    \* history: some Cluster.Close call has begun
    dpass       \* history: has the selector's Range admitted a node ("hit") or
                \* none ("miss"), and has time passed since it ended ("waited")

vars == <<nodes, nodeLen, limitRPS, idleNode, objs, dpc, dtodo, dnode,
          pc, loc, ret, cpc, calls, closing, dpass>>

\* ----------------------------------------------------------- rate.Limiter
\* A limiter holds `tokens` in units of 1/TicksPerSec of a token, so that a
\* limit of r tokens per second adds r units per Tick.  The bucket holds at
\* most Burst tokens and is full when the limiter is made.  setLimit passes
\* limitRPS to rate.Limit as it is: a limit of 0 is the library's "no events"
\* (its "no limit" is rate.Inf), a bucket that is never refilled.
OneToken == TicksPerSec
Full == Burst * TicksPerSec

Min(x, y) == IF x < y THEN x ELSE y

\* rate.NewLimiter(rate.Limit(limitRPS), 1): a fresh limiter with a full bucket
NewLimiter(r) == [limit |-> r, tokens |-> Full]

\* Limiter.Allow(): is one token available now
Allow(n) == n.tokens >= OneToken

\* the token a successful Allow() consumes
TakeToken(n) == [n EXCEPT !.tokens = @ - OneToken]

\* refill over one Tick, capped at the burst
Advance(n) == [n EXCEPT !.tokens = Min(Full, @ + n.limit)]

\* ------------------------------------------------------------------- Node
\* `since` is a history field: Ticks since the node was last received by a
\* caller under its present limiter, counted up to SinceCap (a second or more
\* ago, or never).  `removed` is a history field: a RemoveNode has deleted the
\* node from the registry.  `owed` is a history field: the successful Allow()
\* calls on the node less the times a caller has received it.  `pass` is a
\* history field of the selector's running Range: "due" for a node that was
\* registered when the Range began and has had no Allow() call yet, "done"
\* after its Allow() call, "twice" after a second one, "out" otherwise.
\* `late`, `stale` and `slate` are history fields of a removed node: the times
\* a caller has received it since its removal (counted up to 3), whether the
\* selector has begun a Range since its removal, and the times a caller has
\* received it since that Range began (counted up to 2).
SinceCap == TicksPerSec

\* Node.setLimit: replaces the node's limiter by a new one
setLimit(n, r) ==
    [n EXCEPT !.limit = NewLimiter(r).limit,
              !.tokens = NewLimiter(r).tokens,
              !.since = SinceCap]

\* a newNode that takes every DSN for a reachable database
newNodeNeverFails(dsn) == FALSE

\* newNode fails when sql.Open or db.Ping fails
newNodeFails(dsn) == dsn # "ok"

\* newNode: the Node it constructs on success
newNode(name, r) ==
    setLimit([name |-> name, limit |-> 0, tokens |-> 0,
              closed |-> FALSE, since |-> SinceCap, removed |-> FALSE,
              owed |-> 0, pass |-> "out", late |-> 0, stale |-> FALSE,
              slate |-> 0], r)

\* ---------------------------------------------------------------- Cluster
\* a Range that passes over the key "b"
RangeKeysButOne(m) == DOMAIN m \ {"b"}

\* sync.Map.Range: the keys a Range is going to visit, those present when it
\* begins; it visits each once and loads its value at the visit
RangeKeys(m) == DOMAIN m

\* a nodeExists that finds no name
nodeExistsNever(name) == FALSE

\* Cluster.nodeExists
nodeExists(name) == name \in DOMAIN nodes

\* sync.Map.Store
MapStore(m, k, v) == [x \in DOMAIN m \cup {k} |-> IF x = k THEN v ELSE m[x]]

\* a Delete that leaves the key in the map
MapDeleteNothing(m, k) == m

\* sync.Map.Delete
MapDelete(m, k) == [x \in DOMAIN m \ {k} |-> m[x]]

\* locals of a call; `log` is a history field of Close: one entry per
\* db.Close() it has made, in order
IdleLoc == [name |-> NoName, dsn |-> "ok", rate |-> 0, todo |-> {},
            node |-> NoNode, err |-> NoErr, start |-> <<>>, log |-> <<>>]

Init ==
    /\ nodes = <<>>
    /\ nodeLen = 0
    /\ limitRPS \in Rates
    /\ idleNode = <<>>
    /\ objs = <<>>
    /\ dpc = "start"
    /\ dtodo = {}
    /\ dnode = NoNode
    /\ pc = [p \in Admins |-> "idle"]
    /\ loc = [p \in Admins |-> IdleLoc]
    /\ ret = [p \in Admins |-> NoErr]
    /\ cpc = [c \in Callers |-> "idle"]
    /\ calls = 0
    /\ closing = FALSE
    /\ dpass = "none"

Return(p, err) ==
    /\ pc' = [pc EXCEPT ![p] = "idle"]
    /\ loc' = [loc EXCEPT ![p] = IdleLoc]
    /\ ret' = [ret EXCEPT ![p] = err]

Goto(p, label, l) ==
    /\ pc' = [pc EXCEPT ![p] = label]
    /\ loc' = [loc EXCEPT ![p] = l]
    /\ ret' = [ret EXCEPT ![p] = NoErr]

\* an idle administrative goroutine begins a call
Call(p) ==
    /\ pc[p] = "idle"
    /\ calls < MaxCalls
    /\ calls' = calls + 1

\* a selector that keeps c.mu locked while its send is pending
SelectorHoldsMuWhileSending == dpc = "send"

\* the program points at which nodeSelector holds c.mu: it never locks it,
\* and sync.Map.Range holds no lock of the Cluster across the callback
SelectorHoldsMu == FALSE

\* c.mu.Lock() or c.mu.RLock() goes through.  Every critical section of the
\* administrative calls is one step, so only the selector could be inside one.
MuFree == ~SelectorHoldsMu

\* Cluster.Len: c.nodeLen read under RLock
ClusterLen == nodeLen

\* Cluster.Len is called and returns
LenCall(p) ==
    /\ Call(p)
    /\ MuFree
    /\ Return(p, NoErr)
    /\ UNCHANGED <<nodes, nodeLen, limitRPS, idleNode, objs, dpc, dtodo,
                   dnode, cpc, closing,
                   dpass>>

\* ------------------------------------- SetMaxIdleConns, SetMaxOpenConns
\* c.mu.Lock(); c.maxIdleConn = n; c.mu.Unlock(); then Range sets the pool
\* limit of every node's db under node.mu, which no other function locks.  The
\* pool limits belong to database/sql and are no part of the state.
SetMaxIdleConns(p) ==
    /\ Call(p)
    /\ MuFree
    /\ Return(p, NoErr)
    /\ UNCHANGED <<nodes, nodeLen, limitRPS, idleNode, objs, dpc, dtodo,
                   dnode, cpc, closing,
                   dpass>>

\* c.mu.Lock(); c.maxOpenConn = n; c.mu.Unlock(); then Range as above
SetMaxOpenConns(p) ==
    /\ Call(p)
    /\ MuFree
    /\ Return(p, NoErr)
    /\ UNCHANGED <<nodes, nodeLen, limitRPS, idleNode, objs, dpc, dtodo,
                   dnode, cpc, closing,
                   dpass>>

\* ---------------------------------------------------------------- AddNode
\* AddNode is called; c.nodeExists(name) under RLock
AddCheck(p, name, dsn) ==
    /\ Call(p)
    /\ MuFree
    /\ IF nodeExists(name)
       THEN Return(p, ErrDuplicateNodeName)
       ELSE Goto(p, "add_new", [IdleLoc EXCEPT !.name = name, !.dsn = dsn])
    /\ UNCHANGED <<nodes, nodeLen, limitRPS, idleNode, objs, dpc, dtodo,
                   dnode, cpc, closing,
                   dpass>>

\* newNode(name, dsn, c.limitRPS, ...): c.limitRPS is read without the lock
AddNew(p) ==
    /\ pc[p] = "add_new"
    /\ IF newNodeFails(loc[p].dsn)
       THEN /\ Return(p, ErrAddFailed)
            /\ objs' = objs
       ELSE /\ objs' = Append(objs, newNode(loc[p].name, limitRPS))
            /\ Goto(p, "add_store", [loc[p] EXCEPT !.node = Len(objs) + 1])
    /\ UNCHANGED <<nodes, nodeLen, limitRPS, idleNode, dpc, dtodo, dnode,
                   cpc, calls, closing,
                   dpass>>

\* c.mu.Lock(); c.nodeLen++; c.nodes.Store(name, node); c.mu.Unlock()
AddStore(p) ==
    /\ pc[p] = "add_store"
    /\ MuFree
    /\ nodeLen' = nodeLen + 1
    /\ nodes' = MapStore(nodes, loc[p].name, loc[p].node)
    /\ Return(p, NoErr)
    /\ UNCHANGED <<limitRPS, idleNode, objs, dpc, dtodo, dnode, cpc, calls,
                   closing,
                   dpass>>

\* ------------------------------------------------------------- RemoveNode
\* RemoveNode is called; c.nodeExists(name) under RLock
RemoveCheck(p, name) ==
    /\ Call(p)
    /\ MuFree
    /\ IF nodeExists(name)
       THEN Goto(p, "rm_delete", [IdleLoc EXCEPT !.name = name])
       ELSE Return(p, NoErr)
    /\ UNCHANGED <<nodes, nodeLen, limitRPS, idleNode, objs, dpc, dtodo,
                   dnode, cpc, closing,
                   dpass>>

\* c.mu.Lock(); c.nodeLen--; c.nodes.Delete(name); c.mu.Unlock()
RemoveDelete(p) ==
    /\ pc[p] = "rm_delete"
    /\ MuFree
    /\ nodeLen' = nodeLen - 1
    /\ nodes' = MapDelete(nodes, loc[p].name)
    /\ objs' = IF loc[p].name \in DOMAIN nodes
               THEN [objs EXCEPT ![nodes[loc[p].name]].removed = TRUE]
               ELSE objs
    /\ Return(p, NoErr)
    /\ UNCHANGED <<limitRPS, idleNode, dpc, dtodo, dnode, cpc, calls,
                   closing,
                   dpass>>

\* ------------------------------------------------------------ SetLimitRPS
\* c.mu.Lock(); c.limitRPS = limitRPS; c.mu.Unlock()
SetLimitStore(p, r) ==
    /\ Call(p)
    /\ MuFree
    /\ limitRPS' = r
    /\ Goto(p, "sl_range", [IdleLoc EXCEPT !.rate = r])
    /\ UNCHANGED <<nodes, nodeLen, idleNode, objs, dpc, dtodo, dnode, cpc,
                   closing,
                   dpass>>

\* c.nodes.Range(...) begins: the keys it is going to visit
SetLimitRange(p) ==
    /\ pc[p] = "sl_range"
    /\ Goto(p, "sl_visit", [loc[p] EXCEPT !.todo = RangeKeys(nodes)])
    /\ UNCHANGED <<nodes, nodeLen, limitRPS, idleNode, objs, dpc, dtodo,
                   dnode, cpc, calls, closing,
                   dpass>>

\* one callback of the Range: value.(*Node).setLimit(limitRPS); a key deleted
\* since the Range began is skipped
SetLimitVisit(p, k) ==
    /\ pc[p] = "sl_visit"
    /\ k \in loc[p].todo
    /\ objs' = IF k \in DOMAIN nodes
               THEN [objs EXCEPT ![nodes[k]] = setLimit(@, loc[p].rate)]
               ELSE objs
    /\ Goto(p, "sl_visit", [loc[p] EXCEPT !.todo = @ \ {k}])
    /\ UNCHANGED <<nodes, nodeLen, limitRPS, idleNode, dpc, dtodo, dnode,
                   cpc, calls, closing,
                   dpass>>

\* the Range is over; SetLimitRPS returns
SetLimitReturn(p) ==
    /\ pc[p] = "sl_visit"
    /\ loc[p].todo = {}
    /\ Return(p, NoErr)
    /\ UNCHANGED <<nodes, nodeLen, limitRPS, idleNode, objs, dpc, dtodo,
                   dnode, cpc, calls, closing,
                   dpass>>

\* ------------------------------------------------------------------ Close
\* returnError after one node's db.Close(): the last failure is kept
CloseErr(prev, key, failed) == IF failed THEN key ELSE prev

\* a Close whose callback returns false, ending the Range, when db.Close() fails
CloseStopsOnFailure(failed) == ~failed

\* does the Range of Close go on after a callback (the callback returns true)
CloseContinues(failed) == TRUE

\* Close is called; c.nodes.Range(...) begins.  `start` is a history field:
\* the registry as it is when Close is called
CloseRange(p) ==
    /\ Call(p)
    /\ closing' = TRUE
    /\ Goto(p, "cl_visit", [IdleLoc EXCEPT !.todo = RangeKeys(nodes),
                                           !.start = nodes])
    /\ UNCHANGED <<nodes, nodeLen, limitRPS, idleNode, objs, dpc, dtodo,
                   dnode, cpc,
                   dpass>>

\* one callback of the Range: node.db.Close(), which may fail; a key deleted
\* since the Range began is skipped
CloseVisit(p, k, failed) ==
    /\ pc[p] = "cl_visit"
    /\ k \in loc[p].todo
    /\ IF k \in DOMAIN nodes
       THEN /\ objs' = [objs EXCEPT ![nodes[k]].closed = TRUE]
            /\ Goto(p, "cl_visit",
                    [loc[p] EXCEPT
                       !.todo = IF CloseContinues(failed) THEN @ \ {k} ELSE {},
                       !.err = CloseErr(@, k, failed),
                       !.log = Append(@, [node |-> nodes[k], key |-> k,
                                          failed |-> failed])])
       ELSE /\ failed = FALSE
            /\ objs' = objs
            /\ Goto(p, "cl_visit", [loc[p] EXCEPT !.todo = @ \ {k}])
    /\ UNCHANGED <<nodes, nodeLen, limitRPS, idleNode, dpc, dtodo, dnode,
                   cpc, calls, closing,
                   dpass>>

\* the Range is over; Close returns returnError
CloseReturn(p) ==
    /\ pc[p] = "cl_visit"
    /\ loc[p].todo = {}
    /\ Return(p, loc[p].err)
    /\ UNCHANGED <<nodes, nodeLen, limitRPS, idleNode, objs, dpc, dtodo,
                   dnode, cpc, calls, closing,
                   dpass>>

\* ----------------------------------------------------------- nodeSelector
\* for { c.nodes.Range(...) }: a Range begins over the keys present now
RangeStart ==
    /\ dpc = "start"
    /\ dpc' = "iter"
    /\ dtodo' = RangeKeys(nodes)
    /\ dpass' = "miss"
    /\ objs' = [i \in DOMAIN objs |->
                  [objs[i] EXCEPT !.pass =
                      IF \E k \in DOMAIN nodes : nodes[k] = i
                      THEN "due" ELSE "out",
                                  !.stale = objs[i].removed]]
    /\ UNCHANGED <<nodes, nodeLen, limitRPS, idleNode, dnode, pc, loc,
                   ret, cpc, calls, closing>>

\* the Range loads the next key's value and calls the callback with it; a key
\* deleted since the Range began is skipped
RangeNext(k) ==
    /\ dpc = "iter"
    /\ k \in dtodo
    /\ dtodo' = dtodo \ {k}
    /\ IF k \in DOMAIN nodes
       THEN dpc' = "allow" /\ dnode' = nodes[k]
       ELSE dpc' = "iter" /\ dnode' = dnode
    /\ UNCHANGED <<nodes, nodeLen, limitRPS, idleNode, objs, pc, loc, ret,
                   cpc, calls, closing,
                   dpass>>

\* the Range has visited every key: the for loop starts the next Range
RangeEnd ==
    /\ dpc = "iter"
    /\ dtodo = {}
    /\ dpc' = "start"
    /\ objs' = [i \in DOMAIN objs |-> [objs[i] EXCEPT !.pass = "out"]]
    /\ UNCHANGED <<nodes, nodeLen, limitRPS, idleNode, dtodo, dnode,
                   pc, loc, ret, cpc, calls, closing,
                   dpass>>

\* the `pass` field of a node after one more Allow() call in the running Range
Checked(ps) == IF ps \in {"done", "twice"} THEN "twice" ELSE "done"

\* if node.limiter.Allow() { ... }
SelectorAllow ==
    /\ dpc = "allow"
    /\ IF Allow(objs[dnode])
       THEN /\ objs' = [objs EXCEPT ![dnode] =
                                [TakeToken(@) EXCEPT !.owed = @ + 1,
                                                     !.pass = Checked(@)]]
            /\ dpc' = "send"
            /\ dnode' = dnode
            /\ dpass' = "hit"
       ELSE /\ objs' = [objs EXCEPT ![dnode].pass = Checked(@)]
            /\ dpc' = "iter"
            /\ dnode' = NoNode
            /\ dpass' = dpass
    /\ UNCHANGED <<nodes, nodeLen, limitRPS, idleNode, dtodo, pc, loc, ret,
                   cpc, calls, closing>>

\* a channel whose send never blocks
CanSendAlways(ch) == TRUE

\* make(chan *Node, 1): a send goes through while the buffer has room
CanSend(ch) == Len(ch) < ChanCap

\* c.idleNode <- node: blocks while the channel's buffer is full
SelectorSend ==
    /\ dpc = "send"
    /\ CanSend(idleNode)
    /\ idleNode' = Append(idleNode, dnode)
    /\ dpc' = "iter"
    /\ dnode' = NoNode
    /\ UNCHANGED <<nodes, nodeLen, limitRPS, objs, dtodo, pc, loc, ret, cpc,
                   calls, closing,
                   dpass>>

Selector == RangeStart \/ (\E k \in Names : RangeNext(k)) \/ RangeEnd
            \/ SelectorAllow \/ SelectorSend

\* ----------------------------------------------------------- Cluster.Node
\* a receive that leaves the node in the channel
ChanPeek(ch) == ch

\* <-c.idleNode: what is left in the channel
ChanRecv(ch) == Tail(ch)

\* a caller enters Cluster.Node and blocks on <-c.idleNode
NodeCall(c) ==
    /\ cpc[c] = "idle"
    /\ cpc' = [cpc EXCEPT ![c] = "blocked"]
    /\ UNCHANGED <<nodes, nodeLen, limitRPS, idleNode, objs, dpc, dtodo,
                   dnode, pc, loc, ret, calls, closing,
                   dpass>>

\* return <-c.idleNode
NodeRecv(c) ==
    /\ cpc[c] = "blocked"
    /\ idleNode # <<>>
    /\ idleNode' = ChanRecv(idleNode)
    /\ cpc' = [cpc EXCEPT ![c] = "idle"]
    /\ objs' = [objs EXCEPT ![Head(idleNode)] =
                  [@ EXCEPT !.since = 0,
                            !.owed = @ - 1,
                            !.late = IF objs[Head(idleNode)].removed
                                     THEN Min(3, @ + 1) ELSE @,
                            !.slate = IF objs[Head(idleNode)].stale
                                      THEN Min(2, @ + 1) ELSE @]]
    /\ UNCHANGED <<nodes, nodeLen, limitRPS, dpc, dtodo, dnode, pc, loc, ret,
                   calls, closing,
                   dpass>>

\* ------------------------------------------------------------------- time
\* 1/TicksPerSec of a second passes
Tick ==
    /\ objs' = [i \in DOMAIN objs |->
                  [Advance(objs[i]) EXCEPT
                     !.since = Min(SinceCap, @ + 1)]]
    /\ dpass' = IF dpc = "start" /\ dpass = "miss" THEN "waited" ELSE dpass
    /\ UNCHANGED <<nodes, nodeLen, limitRPS, idleNode, dpc, dtodo, dnode, pc,
                   loc, ret, cpc, calls, closing>>

\* the calls of the administrative goroutines in P
AdminBy(P) ==
    \/ \E p \in P, name \in Names, dsn \in DSNs : AddCheck(p, name, dsn)
    \/ \E p \in P : AddNew(p)
    \/ \E p \in P : AddStore(p)
    \/ \E p \in P, name \in Names : RemoveCheck(p, name)
    \/ \E p \in P : RemoveDelete(p)
    \/ \E p \in P, r \in Rates : SetLimitStore(p, r)
    \/ \E p \in P : SetLimitRange(p)
    \/ \E p \in P, k \in Names : SetLimitVisit(p, k)
    \/ \E p \in P : SetLimitReturn(p)
    \/ \E p \in P : CloseRange(p)
    \/ \E p \in P, k \in Names, failed \in BOOLEAN : CloseVisit(p, k, failed)
    \/ \E p \in P : CloseReturn(p)
    \/ \E p \in P : LenCall(p)
    \/ \E p \in P : SetMaxIdleConns(p)
    \/ \E p \in P : SetMaxOpenConns(p)

\* the calls of the administrative goroutines
Admin == AdminBy(Admins)

\* the goroutines calling Cluster.Node
Caller ==
    \/ \E c \in Callers : NodeCall(c)
    \/ \E c \in Callers : NodeRecv(c)

Next == Admin \/ Selector \/ Caller \/ Tick

\* the whole program
Spec == Init /\ [][Next]_vars

\* the whole program, the Go scheduler running the selector goroutine whenever
\* it is runnable
FairSpec == Spec /\ WF_vars(Selector)

\* the whole program with the selector scheduled fairly, time advancing, and
\* callers that keep calling Cluster.Node and take what the channel holds
\* and one goroutine making the administrative calls, one after another
NextLive == AdminBy({"adm1"}) \/ Selector \/ Caller \/ Tick
LiveSpec ==
    /\ Init /\ [][NextLive]_vars
    /\ WF_vars(Selector) /\ WF_vars(Tick) /\ WF_vars(Caller)

\* the administrative surface alone.  Selector, Caller and Tick leave nodes,
\* nodeLen, limitRPS, pc, loc, ret, calls and closing unchanged, and no Admin
\* step reads what they write (tokens, since, idleNode), so every behaviour of
\* Spec projects onto one of SpecAdmin on those variables.
SpecAdmin == Init /\ [][Admin]_vars

\* ================================================================ claims

\* C1: in every reachable state the counter Cluster.Len returns equals the
\* number of entries of the registry (so it is never negative and never
\* exceeds the number of registered names).
C1_CountEqualsEntries == ClusterLen = Cardinality(DOMAIN nodes)

\* C2: an AddNode whose name is present in the registry returns
\* ErrDuplicateNodeName and leaves the registry and the counter as they were.
C2_DuplicateRejected ==
    [][\A p \in Admins, name \in Names, dsn \in DSNs :
          AddCheck(p, name, dsn) /\ name \in DOMAIN nodes
          => /\ ret'[p] = ErrDuplicateNodeName
             /\ pc'[p] = "idle"
             /\ nodes' = nodes
             /\ nodeLen' = nodeLen]_vars

\* C2, its case: an AddNode has returned ErrDuplicateNodeName and the registry
\* holds the one node it held before, counted once
C2_Witness ==
    \E p \in Admins :
        /\ ret[p] = ErrDuplicateNodeName
        /\ Cardinality(DOMAIN nodes) = 1
        /\ nodeLen = 1

\* C3: whenever the selector is about to call Allow() on a node whose limit
\* is 0, Allow() returns true.
C3_ZeroLimitAlwaysAllowed ==
    (dpc = "allow" /\ objs[dnode].limit = 0) => Allow(objs[dnode])

\* C4: a node with limit R > 0 is not received by callers twice within less
\* than 1/R seconds (the number of deliveries over a window of length T is at
\* most ceil(R*T)): at every delivery, R times the time since that node's
\* previous delivery is at least one second.
C4_RateConformance ==
    [][\A c \in Callers :
          NodeRecv(c) /\ objs[Head(idleNode)].limit > 0
          => objs[Head(idleNode)].since * objs[Head(idleNode)].limit
                 >= TicksPerSec]_vars

\* C5: while no SetLimitRPS call is in progress, every node of the registry has
\* the limit the last SetLimitRPS set (the cluster's limitRPS), whatever
\* AddNode calls ran concurrently.
C5_LimitPropagated ==
    (\A p \in Admins : pc[p] \notin {"sl_range", "sl_visit"})
    => \A k \in DOMAIN nodes : objs[nodes[k]].limit = limitRPS

\* C6: after Close has been called (here: and has returned) the selector
\* eventually stops: from some point on it has no step left to take.
C6_SelectorStops ==
    []((closing /\ \A p \in Admins : pc[p] # "cl_visit")
       => <>[](~ENABLED Selector))

\* C7: when Close returns it has called db.Close() on every node that was in
\* the registry when it was called and is still there, going on after a
\* failure; it returns an error exactly when some db.Close() failed, and the
\* error names the node of the last failure.
C7_Attempted(p) ==
    \A k \in DOMAIN loc[p].start :
        (k \in DOMAIN nodes /\ nodes[k] = loc[p].start[k])
        => \E i \in DOMAIN loc[p].log : loc[p].log[i].node = nodes[k]

C7_Failures(p) == {i \in DOMAIN loc[p].log : loc[p].log[i].failed}

C7_CloseAggregates ==
    [][\A p \in Admins :
          CloseReturn(p)
          => /\ C7_Attempted(p)
             /\ (ret'[p] # NoErr) <=> (C7_Failures(p) # {})
             /\ C7_Failures(p) # {}
                => \E i \in C7_Failures(p) :
                      /\ \A j \in C7_Failures(p) : j <= i
                      /\ ret'[p] = loc[p].log[i].key]_vars

\* C7, its case: a Close is about to return after the db.Close() of its first
\* node failed and that of its second node succeeded
C7_Witness ==
    \E p \in Admins :
        /\ pc[p] = "cl_visit"
        /\ loc[p].todo = {}
        /\ Len(loc[p].log) = 2
        /\ loc[p].log[1].failed
        /\ ~loc[p].log[2].failed
        /\ loc[p].err = loc[p].log[1].key

\* C8: once Close has begun, no call of Cluster.Node returns a node.
C8_NoNodeAfterClose ==
    [][\A c \in Callers : NodeRecv(c) => ~closing]_vars

\* C9: a node whose db.Close() has begun is neither sent into idleNode by the
\* selector nor received from it by a caller.
C9_ClosedNeverOffered ==
    [][/\ SelectorSend => ~objs[dnode].closed
       /\ \A c \in Callers : NodeRecv(c) => ~objs[Head(idleNode)].closed]_vars

\* C10: an AddNode whose database cannot be opened or pinged returns the
\* wrapped error and leaves the registry, the counter, the default limit and
\* the Node objects as they were.
C10_FailedAddChangesNothing ==
    [][\A p \in Admins :
          (pc[p] = "add_new" /\ loc[p].dsn # "ok" /\ pc'[p] # pc[p])
          => /\ ret'[p] = ErrAddFailed
             /\ pc'[p] = "idle"
             /\ UNCHANGED <<nodes, nodeLen, limitRPS, objs,
                   dpass>>]_vars

\* C10, its case: an AddNode has returned the wrapped error
C10_Witness ==
    \E p \in Admins : ret[p] = ErrAddFailed /\ pc[p] = "idle"

\* a Node object some goroutine or the channel still holds a reference to
Referenced(i) ==
    \/ dnode = i
    \/ \E j \in DOMAIN idleNode : idleNode[j] = i
    \/ \E p \in Admins : loc[p].node = i

\* C11: a node RemoveNode has deleted from the registry, once nothing refers
\* to it any more, eventually has its db closed.
C11_RemovedEventuallyClosed ==
    \A i \in 1..MaxCalls :
        []((i \in DOMAIN objs /\ objs[i].removed /\ ~Referenced(i))
           => <>(i \in DOMAIN objs /\ objs[i].closed))

\* C12: every AddNode that returns success stored its node under a name that
\* was free: of two AddNode calls of one name running concurrently, with no
\* RemoveNode between them, the second to store does not succeed and no node
\* is stored over the first's.
C12_OneAddWins ==
    [][\A p \in Admins : AddStore(p) => loc[p].name \notin DOMAIN nodes]_vars

\* the nodes Allow() has admitted and no caller has received yet
RECURSIVE OwedUpTo(_)
OwedUpTo(n) == IF n = 0 THEN 0 ELSE objs[n].owed + OwedUpTo(n - 1)
Undelivered == OwedUpTo(Len(objs))

\* C13: idleNode never holds more than one node; the selector calls Allow()
\* only while at most one admitted node is undelivered (with the channel full,
\* the send after its next successful Allow() blocks), so never more than 2
\* admitted nodes are undelivered.
C13_AtMostTwoUndelivered ==
    /\ Len(idleNode) <= 1
    /\ dpc = "allow" => Undelivered <= 1
    /\ Undelivered <= 2

\* C13, its case: the channel is full and the selector is blocked sending the
\* node of one further successful Allow()
C13_Witness ==
    /\ Len(idleNode) = 1
    /\ dpc = "send"
    /\ Undelivered = 2
    /\ ~ENABLED Selector

\* the times node i stands in the channel or in the selector's pending send
Held(i) ==
    Cardinality({j \in DOMAIN idleNode : idleNode[j] = i})
    + (IF dpc = "send" /\ dnode = i THEN 1 ELSE 0)

\* C18: for every node, the deliveries to callers never exceed the successful
\* Allow() calls on it, and every admitted node not yet delivered stands once
\* in the channel or in the selector's pending send: a node sent once is
\* received once.
C18_DeliveriesMatchAllows ==
    \A i \in DOMAIN objs : objs[i].owed >= 0 /\ objs[i].owed = Held(i)

\* C18, its case: both callers were in Cluster.Node, a node has been
\* delivered, and the same node is admitted again and waits in the channel
C18_Witness ==
    \E i \in DOMAIN objs :
        /\ objs[i].since = 0
        /\ idleNode = <<i>>
        /\ objs[i].owed = 1

\* the next step of administrative goroutine p inside the call it has begun
AdminStep(p) ==
    \/ AddNew(p) \/ AddStore(p) \/ RemoveDelete(p)
    \/ SetLimitRange(p) \/ (\E k \in Names : SetLimitVisit(p, k))
    \/ SetLimitReturn(p)

\* C14: the selector holds no lock of the Cluster, also while its send is
\* blocked on the full channel: whatever the selector and the callers do, an
\* idle administrative goroutine can begin each of AddNode, RemoveNode,
\* SetLimitRPS, SetMaxIdleConns, SetMaxOpenConns and Len, and a goroutine
\* inside AddNode, RemoveNode or SetLimitRPS can take its next step; every
\* call is a bounded number of steps, so it returns.
C14_AdminNeverBlocked ==
    \A p \in Admins :
        /\ (pc[p] = "idle" /\ calls < MaxCalls) =>
              /\ \A name \in Names, dsn \in DSNs : ENABLED AddCheck(p, name, dsn)
              /\ \A name \in Names : ENABLED RemoveCheck(p, name)
              /\ \A r \in Rates : ENABLED SetLimitStore(p, r)
              /\ ENABLED SetMaxIdleConns(p)
              /\ ENABLED SetMaxOpenConns(p)
              /\ ENABLED LenCall(p)
        /\ pc[p] \in {"add_new", "add_store", "rm_delete", "sl_range",
                      "sl_visit"} => ENABLED AdminStep(p)

\* C14, its case: no caller has ever called Cluster.Node, the channel is full,
\* the selector is blocked in its send, and an AddNode is about to store
C14_Witness ==
    /\ \A c \in Callers : cpc[c] = "idle"
    /\ \A i \in DOMAIN objs : objs[i].since = SinceCap
    /\ Len(idleNode) = ChanCap
    /\ dpc = "send"
    /\ \E p \in Admins : pc[p] = "add_store" /\ ENABLED AddStore(p)

\* C15: after a Range that admitted no node, a Range over an empty registry
\* included, the selector begins its next Range only after time has passed.
C15_WaitsAfterFruitlessPass ==
    [][RangeStart => dpass # "miss"]_vars

\* C16: SetLimitRPS(r) with r > 0 grants no token: a node whose token is
\* spent, so that Allow() is false, still has Allow() false right after its
\* setLimit(r).
C16_NoRetroactiveToken ==
    [][\A p \in Admins, k \in Names :
          (/\ SetLimitVisit(p, k)
           /\ k \in DOMAIN nodes
           /\ loc[p].rate > 0
           /\ ~Allow(objs[nodes[k]]))
          => ~Allow(objs'[nodes[k]])]_vars

\* is node i the value of some key of the registry
Registered(i) == \E k \in DOMAIN nodes : nodes[k] = i

\* C17: within one Range of the selector no node has Allow() called on it
\* more than once, and when the Range ends every node registered from its
\* beginning to its end has had its Allow() call; so, with callers that keep
\* calling Cluster.Node, every node that stays registered and whose limiter
\* has a token again and again is delivered again and again.
C17_RoundRobinByScan ==
    /\ [][/\ SelectorAllow => objs[dnode].pass \in {"due", "out"}
          /\ RangeEnd => \A k \in DOMAIN nodes : objs[nodes[k]].pass # "due"]_vars
    /\ \A i \in 1..MaxCalls :
          (/\ <>[](i \in DOMAIN objs /\ Registered(i))
           /\ []<>(i \in DOMAIN objs /\ Allow(objs[i])))
          => []<>(i \in DOMAIN objs /\ objs[i].since = 0)

\* C17, its case: two nodes are registered with a limit above 0, one has just
\* been delivered to a caller and the other waits in the channel
C17_Witness ==
    \E i, j \in DOMAIN objs :
        /\ i # j
        /\ Registered(i) /\ Registered(j)
        /\ objs[i].limit > 0 /\ objs[j].limit > 0
        /\ objs[i].since = 0
        /\ idleNode = <<j>>

\* C19 as claimed: a caller receives a removed node at most 2 times after
\* RemoveNode has returned, and never once the selector has begun a Range
\* after the removal.
C19_NoneAfterNextPass ==
    \A i \in DOMAIN objs : objs[i].late <= 2 /\ objs[i].slate = 0

\* C19, amended: a caller receives a removed node at most 2 times after
\* RemoveNode has returned, and at most once after the selector has begun a
\* Range after the removal: the node may still stand in the channel then.
C19_LateDeliveries ==
    \A i \in DOMAIN objs : objs[i].late <= 2 /\ objs[i].slate <= 1

\* C19, its case: a removed node has been received twice since its removal,
\* the second time after the selector began a new Range
C19_Witness ==
    \E i \in DOMAIN objs :
        objs[i].removed /\ objs[i].late = 2 /\ objs[i].slate = 1

\* C20: if some node stays registered, time advances and the selector is
\* scheduled fairly, callers blocked in Cluster.Node do not stay blocked for
\* ever: whenever every caller is blocked, one of them eventually returns.
C20_BlockedNodeReturns ==
    \A i \in 1..MaxCalls :
        <>[](i \in DOMAIN objs /\ Registered(i))
        => ((\A c \in Callers : cpc[c] = "blocked")
            ~> (\E c \in Callers : cpc[c] = "idle"))

====
